---- MODULE Spec2Model ----
(***************************************************************************)
(* Model of the streaming PubMed image-caption pipeline of process.py      *)
(* (build_pubmed_image_caption_dataset_streaming, the dual-base version    *)
(* at process.py:315, which is the definition in force at run time).       *)
(*                                                                         *)
(* File names, graphic references and suffixes are sequences of            *)
(* one-character strings, so that lower-casing, suffix tests and the       *)
(* substring scan are computed; identifiers (pmid, pmcid, fig_id) are      *)
(* strings joined with \o as the f-strings of the code join them.          *)
(***************************************************************************)
EXTENDS Integers, Sequences, FiniteSets, TLC

\* ------------------------------------------------------------------ bounds
MaxRuns == 3
MaxRows == 2
MaxCuts == 1

\* Python's None for the optional integer parameters and the missing header.
None == -1

\* ------------------------------------------------------- character strings
Max(S) == CHOOSE m \in S : \A x \in S : x <= m

Lower(c) ==
    CASE c = "F" -> "f" [] c = "J" -> "j" [] c = "P" -> "p" [] c = "G" -> "g"
      [] c = "N" -> "n" [] c = "X" -> "x" [] c = "M" -> "m" [] c = "L" -> "l"
      [] OTHER -> c

\* the element of a one-element set; {e(x) : x \in {v}} computes v once
Only(S) == CHOOSE x \in S : TRUE

LowerStr(s) == Only({[i \in 1..Len(t) |-> Lower(t[i])] : t \in {s}})

EndsWith(s, suf) ==
    /\ Len(suf) <= Len(s)
    /\ SubSeq(s, Len(s) - Len(suf) + 1, Len(s)) = suf

\* Python's `sub in s`
Contains(s, sub) ==
    \E i \in 0..(Len(s) - Len(sub)) : SubSeq(s, i + 1, i + Len(sub)) = sub

LastIndex(s, c) ==
    LET I == {i \in 1..Len(s) : s[i] = c}
    IN  IF I = {} THEN 0 ELSE Max(I)

RECURSIVE StripSlashes(_)
StripSlashes(s) ==
    IF Len(s) > 0 /\ s[Len(s)] = "/" THEN StripSlashes(SubSeq(s, 1, Len(s) - 1))
    ELSE s

\* pathlib: Path(s).name, the last component of the path
PathName(s) ==
    LET t == StripSlashes(s)
        j == LastIndex(t, "/")
        n == SubSeq(t, j + 1, Len(t))
    IN  IF n = <<".">> THEN <<>> ELSE n

\* pathlib: Path(name).stem, the name without its last suffix; a leading or a
\* trailing dot starts no suffix
PathStem(name) ==
    LET j == LastIndex(name, ".")
    IN  IF 1 < j /\ j < Len(name) THEN SubSeq(name, 1, j - 1) ELSE name

ExtNxml == <<".", "n", "x", "m", "l">>
ExtJpg  == <<".", "j", "p", "g">>
ExtJpeg == <<".", "j", "p", "e", "g">>
ExtPng  == <<".", "p", "n", "g">>
ExtTif  == <<".", "t", "i", "f">>
ExtTiff == <<".", "t", "i", "f", "f">>
ImageExts == <<ExtJpg, ExtJpeg, ExtPng, ExtTif, ExtTiff>>

\* str.strip() on the captions of the model
Strip(c) ==
    CASE c = "  " -> ""
      [] c = " A cell. " -> "A cell."
      [] OTHER -> c

\* --------------------------------------------------- the remote repository
\* An archive member: its name in the tar, TarInfo.isfile(), and what its
\* bytes decode to (mode "bad": not an image PIL can open); `readable` is
\* FALSE when reading the member's bytes from the archive raises.
Member(name, isfile, mode, readable) ==
    [name |-> name, isfile |-> isfile, mode |-> mode, readable |-> readable]

\* One dict of pubmed_parser.parse_pubmed_caption
Fig(pmid, pmc, fig_id, fig_caption, graphic_ref) ==
    [pmid |-> pmid, pmc |-> pmc, fig_id |-> fig_id,
     fig_caption |-> fig_caption, graphic_ref |-> graphic_ref]

NameNxml == <<"a", ".", "N", "X", "M", "L">>
NameF1   == <<"f", "1", ".", "j", "p", "g">>
NameF2   == <<"s", "u", "b", "/", "F", "2", ".", "P", "N", "G">>
NameTxt  == <<"r", ".", "t", "x", "t">>
RefF1    == <<"f", "1">>
RefF2    == <<"x", "/", "f", "2", ".", "t", "i", "f">>
RefZZ    == <<"z", "z">>

MNxml == Member(NameNxml, TRUE, "xml", TRUE)
MF1   == Member(NameF1, TRUE, "RGB", TRUE)
MF2   == Member(NameF2, TRUE, "L", TRUE)
MTxt  == Member(NameTxt, TRUE, "bad", TRUE)

\* A package of the repository:
\*   len     Content-Length the primary endpoint reports to HEAD (None: absent)
\*   prim    the primary download: "ok", "early" (fails before the temp file
\*           is opened), "partial" (fails after chunks were written)
\*   fb      the fallback download: "ok" or "fail"
\*   gz      whether the bytes are a gzip tar that tarfile can read
\*   members the members of the archive, in archive order
\*   tmpok   whether the markup bytes can be written to the temp file
\*   parse   what pubmed_parser does with the markup: "ok", "xmlerr"
\*           (XMLSyntaxError), "attrerr" (AttributeError), "crash" (another
\*           exception)
\*   figs    the captions it returns
Package(len, prim, fb, gz, members, tmpok, parse, figs) ==
    [len |-> len, prim |-> prim, fb |-> fb, gz |-> gz, members |-> members,
     tmpok |-> tmpok, parse |-> parse, figs |-> figs]

StdMembers == <<MNxml, MF1, MF2, MTxt>>
TwoFigs ==
    <<Fig("1001", "PMC1", "1", " A cell. ", RefF1),
      Fig("1001", "PMC1", "2", "B.", RefF2)>>
\* caption-level failures (blank caption, empty reference, no member, a member
\* that does not decode) followed by a caption that succeeds
MixedFigs ==
    <<Fig("", "", "1", "  ", RefF1),
      Fig("", "", "2", "B.", <<>>),
      Fig("", "", "3", "C.", RefZZ),
      Fig("", "", "4", "D.", RefF1),
      Fig("", "", "5", "E.", RefF2)>>
NoneFigs ==
    <<Fig("1003", "PMC3", "1", "", RefF1),
      Fig("1003", "PMC3", "2", "B.", RefZZ)>>
TwinFigs ==
    <<Fig("1004", "", "1", "A cell.", RefF1),
      Fig("1004", "", "1", "B.", RefF2)>>
OneFig == <<Fig("1001", "PMC1", "1", "A cell.", RefF1)>>
\* another article id for the same pmc and figure number
AliasFig == <<Fig("1005", "PMC1", "1", "B.", RefF2)>>
\* no pmc in the markup, and a figure id with a dot
NoPmcFig == <<Fig("1006", "", "g.1", "A cell.", RefF1)>>

Oversize == 1024 * 1024 + 1

Pkg(path) ==
    CASE path = "good"    -> Package(None, "ok", "ok", TRUE, StdMembers, TRUE, "ok", TwoFigs)
      [] path = "one"     -> Package(None, "ok", "ok", TRUE, StdMembers, TRUE, "ok", OneFig)
      [] path = "mixed"   -> Package(None, "ok", "ok", TRUE,
                                     <<MNxml, Member(NameF1, TRUE, "bad", TRUE), MF2>>,
                                     TRUE, "ok", MixedFigs)
      [] path = "none"    -> Package(None, "ok", "ok", TRUE, StdMembers, TRUE, "ok", NoneFigs)
      [] path = "twin"    -> Package(None, "ok", "ok", TRUE, StdMembers, TRUE, "ok", TwinFigs)
      [] path = "rdfail"  -> Package(None, "ok", "ok", TRUE,
                                     <<MNxml, MF1, Member(NameF2, TRUE, "L", FALSE)>>,
                                     TRUE, "ok", TwoFigs)
      [] path = "corrupt" -> Package(None, "ok", "ok", FALSE, StdMembers, TRUE, "ok", OneFig)
      [] path = "nonxml"  -> Package(None, "ok", "ok", TRUE, <<MF1, MTxt>>, TRUE, "ok", OneFig)
      [] path = "tmpfail" -> Package(None, "ok", "ok", TRUE, StdMembers, FALSE, "ok", OneFig)
      [] path = "xmlerr"  -> Package(None, "ok", "ok", TRUE, StdMembers, TRUE, "xmlerr", OneFig)
      [] path = "attrerr" -> Package(None, "ok", "ok", TRUE, StdMembers, TRUE, "attrerr", OneFig)
      [] path = "crash"   -> Package(None, "ok", "ok", TRUE, StdMembers, TRUE, "crash", OneFig)
      [] path = "empty"   -> Package(None, "ok", "ok", TRUE, StdMembers, TRUE, "ok", <<>>)
      [] path = "fbpart"  -> Package(None, "partial", "ok", TRUE, StdMembers, TRUE, "ok", OneFig)
      [] path = "fbearly" -> Package(None, "early", "ok", TRUE, StdMembers, TRUE, "ok", OneFig)
      [] path = "down"    -> Package(None, "partial", "fail", TRUE, StdMembers, TRUE, "ok", OneFig)
      [] path = "big"     -> Package(Oversize, "ok", "ok", TRUE, StdMembers, TRUE, "ok", OneFig)
      [] path = "alias"   -> Package(None, "ok", "ok", TRUE, StdMembers, TRUE, "ok", AliasFig)
      [] path = "nopmc"   -> Package(None, "ok", "ok", TRUE, StdMembers, TRUE, "ok", NoPmcFig)
      [] path = "edge"    -> Package(Oversize - 1, "ok", "ok", TRUE, StdMembers, TRUE, "ok", OneFig)

Paths ==
    {"good", "one", "mixed", "none", "twin", "rdfail", "corrupt", "nonxml", "tmpfail",
     "xmlerr", "attrerr", "crash", "empty", "fbpart", "fbearly", "down", "big", "edge",
     "alias", "nopmc"}

\* pmcid and pmid columns of the manifest row of a package
RowPmcid(path) ==
    CASE path = "good" -> "PMC1" [] path = "mixed" -> "PMC2"
      [] path = "twin" -> "PMC4" [] path = "rdfail" -> "PMC1"
      [] path = "one" -> "PMC1"
      [] path = "nopmc" -> ""
      [] OTHER -> "PMC9"
RowPmid(path) ==
    CASE path = "good" -> "1001" [] path = "mixed" -> "1002"
      [] path = "twin" -> "1004" [] path = "rdfail" -> "1001"
      [] path = "one" -> "1001"
      [] OTHER -> "1009"

\* A manifest line, already split at the tabs: path, title, pmcid, pmid, code
Row(path) == <<path, "title", RowPmcid(path), RowPmid(path), "CC0">>
ShortLine == <<"good", "title", "PMC1", "1001">>
LongLine  == <<"good", "title", "PMC1", "1001", "CC0", "extra">>

\* ------------------------------------------------------------ pure helpers
Min(S) == CHOOSE m \in S : \A x \in S : m <= x

\* _members_by_ext: the members whose lower-cased name ends with one of exts
MembersByExt(members, exts) ==
    SelectSeq(members,
              LAMBDA m : \E i \in 1..Len(exts) :
                             EndsWith(LowerStr(m.name), LowerStr(exts[i])))

\* A dict as the sequence of its items in insertion order
DictHas(d, k) == \E i \in 1..Len(d) : d[i].k = k
DictGet(d, k) == d[CHOOSE i \in 1..Len(d) : d[i].k = k].v
DictPut(d, k, v) ==
    IF DictHas(d, k)
    THEN [i \in 1..Len(d) |-> IF d[i].k = k THEN [k |-> k, v |-> v] ELSE d[i]]
    ELSE Append(d, [k |-> k, v |-> v])

IsImageMember(m) ==
    /\ m.isfile
    /\ \E i \in 1..Len(ImageExts) : EndsWith(LowerStr(m.name), ImageExts[i])

\* img_tar_members: image members keyed by lower-cased basename
RECURSIVE ImgTarMembersUpTo(_, _)
ImgTarMembersUpTo(members, n) ==
    IF n = 0 THEN <<>>
    ELSE Only({IF IsImageMember(m)
               THEN Only({DictPut(d, k, m) : k \in {LowerStr(PathName(m.name))}})
               ELSE d : d \in {ImgTarMembersUpTo(members, n - 1)}, m \in {members[n]}})
ImgTarMembers(members) == ImgTarMembersUpTo(members, Len(members))

NoMember == Member(<<>>, FALSE, "none", FALSE)

Candidates(graphic_ref) ==
    Only({Only({<<LowerStr(base)>>
                    \o [i \in 1..Len(ImageExts) |-> LowerStr(stem \o ImageExts[i])] :
                        stem \in {PathStem(base)}}) :
              base \in {PathName(graphic_ref)}})

\* The member a graphic reference resolves to, or NoMember
MatchMember(graphic_ref, d) ==
    Only({LET hitC == {i \in 1..Len(cands) : \E n \in 1..Len(d) : d[n].k = cands[i]}
              hitS == {i \in 1..Len(d) : Contains(d[i].k, stem)}
          IN  IF hitC # {} THEN Only({DictGet(d, cands[i]) : i \in {Min(hitC)}})
              ELSE IF hitS # {} THEN Only({d[i].v : i \in {Min(hitS)}})
              ELSE NoMember :
                  cands \in {Candidates(graphic_ref)},
                  stem \in {PathStem(PathName(graphic_ref))}})

CaptionUsableRefOnly(fig_caption, graphic_ref) == graphic_ref # <<>>

\* `if not fig_caption or not graphic_ref: continue`, negated
CaptionUsable(fig_caption, graphic_ref) == fig_caption # "" /\ graphic_ref # <<>>

\* `x.get(key, default) or default`
OrDefault(v, default) == IF v = "" THEN default ELSE v

PairIdDash(pmid, fig_id) == pmid \o "-" \o fig_id

\* f"{_pmid}_{fig_id}"
PairId(pmid, fig_id) == pmid \o "_" \o fig_id

\* A path under the image root: directory, stem and suffix of the file name
ImgRel(pmc, fig_id) ==
    [dir |-> pmc, stem |-> pmc \o "_fig-" \o fig_id, suffix |-> ".jpg"]
\* as_posix of Path(dir) / name: an empty directory adds no component
PathStr(p) ==
    IF p.dir = "" THEN p.stem \o p.suffix ELSE p.dir \o "/" \o p.stem \o p.suffix

LowerSuffix(x) ==
    CASE x = ".JPG" -> ".jpg" [] x = ".Jpg" -> ".jpg" [] x = ".PNG" -> ".png" [] OTHER -> x

\* _ensure_jpeg_and_save: the stored image and its path, or a failure
ImageModes == {"RGB", "L", "CMYK", "P", "RGBA", "LA", "1"}
Decodes(mode) == mode \in ImageModes
ConvertModeKeep(mode) == mode
ConvertMode(mode) ==
    IF mode \notin {"RGB", "L"} THEN "RGB"
    ELSE IF mode = "L" THEN "RGB"
    ELSE mode
EnsureJpegAndSave(m, out_path) ==
    IF ~Decodes(m.mode) THEN [ok |-> FALSE, path |-> out_path, img |-> "none"]
    ELSE [ok   |-> TRUE,
          path |-> IF LowerSuffix(out_path.suffix) # ".jpg"
                   THEN [out_path EXCEPT !.suffix = ".jpg"] ELSE out_path,
          img  |-> [mode |-> ConvertMode(m.mode), format |-> "JPEG", src |-> m.name]]

CodecErrorRaises == "raise"

\* what happens when _ensure_jpeg_and_save raises: only this caption is left
CodecErrorAction == "continue"

Record(image, caption, pmid, pmcid, pair_id) ==
    [image |-> image, caption |-> caption, pmid |-> pmid, pmcid |-> pmcid,
     pair_id |-> pair_id]

\* The output file is a sequence of lines that end with a newline, and a
\* last line without one (`tail`, empty unless a write was cut).  A line is the
\* sequence of the texts written into it; a text is a serialized record,
\* complete or cut short.
Dumps(rec) == <<[rec |-> rec, cut |-> FALSE]>>
CutText(rec, whole) == <<[rec |-> rec, cut |-> ~whole]>>
\* json.loads on a line: one complete document and nothing else
Parses(line) == Len(line) = 1 /\ ~line[1].cut
Loads(line) == line[1].rec

AllLines(lines, tl) == IF tl = <<>> THEN lines ELSE Append(lines, tl)

\* the resume scan: the non-empty pair_id of every line that parses
LoadExisting(lines, tl) ==
    LET L == AllLines(lines, tl)
    IN  {Loads(L[i]).pair_id :
            i \in {j \in 1..Len(L) : Parses(L[j]) /\ Loads(L[j]).pair_id # ""}}

\* jf.write(json.dumps(record) + "\n") on a file whose last line is tl
WriteLine(lines, tl, rec) == Append(lines, tl \o Dumps(rec))

\* The list read from the manifest: the header line dropped, the cap applied
\* to the index of the line, lines that do not unpack into 5 fields dropped
Entry(f) == [path |-> f[1], title |-> f[2], pmcid |-> f[3], pmid |-> f[4], code |-> f[5]]
ReadListKeepFirst(manifest, subset_size) ==
    LET n    == IF subset_size # None /\ subset_size # 0 /\ subset_size < Len(manifest)
                THEN subset_size ELSE Len(manifest)
        kept == SelectSeq(SubSeq(manifest, 1, n), LAMBDA f : Len(f) = 5)
    IN  [i \in 1..Len(kept) |-> Entry(kept[i])]
ReadList(manifest, subset_size) ==
    LET lines == IF manifest = <<>> THEN <<>> ELSE Tail(manifest)
        n     == IF subset_size # None /\ subset_size # 0 /\ subset_size < Len(lines)
                 THEN subset_size ELSE Len(lines)
        kept  == SelectSeq(SubSeq(lines, 1, n), LAMBDA f : Len(f) = 5)
    IN  [i \in 1..Len(kept) |-> Entry(kept[i])]

\* _response_size: the Content-Length of the primary endpoint, or None
ResponseSize(pkg) == pkg.len

TooBigOrEqual(pkg, max_filesize_mb) ==
    /\ max_filesize_mb # None
    /\ ResponseSize(pkg) # None
    /\ ResponseSize(pkg) >= max_filesize_mb * 1024 * 1024

TooBig(pkg, max_filesize_mb) ==
    /\ max_filesize_mb # None
    /\ ResponseSize(pkg) # None
    /\ ResponseSize(pkg) > max_filesize_mb * 1024 * 1024

StreamDownloadAlwaysFails(result, before) == [file |-> before, raised |-> TRUE]

StreamDownloadAppend(result, before) ==
    CASE result = "early"   -> [file |-> before, raised |-> TRUE]
      [] result = "partial" -> [file |-> "partial", raised |-> TRUE]
      [] result = "fail"    -> [file |-> before, raised |-> TRUE]
      [] OTHER              -> [file |-> IF before = "partial" THEN "junk" ELSE "full",
                                raised |-> FALSE]

\* _stream_download into a temp file whose content is `before`: the file is
\* opened "wb" (truncated) once the response status is good
StreamDownload(result, before) ==
    CASE result = "early"   -> [file |-> before, raised |-> TRUE]
      [] result = "partial" -> [file |-> "partial", raised |-> TRUE]
      [] result = "fail"    -> [file |-> before, raised |-> TRUE]
      [] OTHER              -> [file |-> "full", raised |-> FALSE]

SafeOpenTarAnything(content, pkg) == TRUE

\* _safe_open_tar and getmembers succeed
SafeOpenTar(content, pkg) == content = "full" /\ pkg.gz

WroteNothingAlways(wrote_any) == TRUE

\* `if not wrote_any: n_skipped += 1`
WroteNothing(wrote_any) == ~wrote_any

\* ----------------------------------------------------------------- worlds
\* A world is what stays the same from run to run: the manifest file, the
\* parameters of the call, and the output file found by the first run.
Cfg(resume, subset_size, max_filesize_mb, use_dual_base) ==
    [resume |-> resume, subset_size |-> subset_size,
     max_filesize_mb |-> max_filesize_mb, use_dual_base |-> use_dual_base]
DefaultCfg == Cfg(TRUE, None, None, TRUE)

Header == <<"path", "title", "pmcid", "pmid", "code">>
\* Row sequences of up to MaxRows rows: one row of any package of P, the
\* other rows of the packages of Q
RowSeqs(P, Q) ==
    {<<>>} \cup
    UNION {{[i \in 1..n |-> Row(IF i = k THEN q ELSE f[i])] :
               k \in 1..n, q \in P, f \in [1..n -> Q]} : n \in 1..MaxRows}
Manifests(P, Q) == {<<Header>> \o rows : rows \in RowSeqs(P, Q)}
Neighbours == {"one"}

\* `room` is the number of lines the device of the output file can hold
\* (None: no limit met)
EmptyFile == [lines |-> <<>>, tail |-> <<>>, room |-> None]
TightFile == [lines |-> <<>>, tail |-> <<>>, room |-> 1]
OldRecord == Record("PMC1/PMC1_fig-1.jpg", "A cell.", "1001", "PMC1", "1001_1")
NoIdRecord == Record("x.jpg", "old", "1", "PMC0", "")
\* an output file of an earlier dataset: a record, a document without
\* pair_id, and a line that is no JSON document
OldFile ==
    [lines |-> <<Dumps(OldRecord), Dumps(NoIdRecord), CutText(NoIdRecord, FALSE)>>,
     tail |-> <<>>, room |-> None]

World(manifest, cfg, file0) == [manifest |-> manifest, cfg |-> cfg, file0 |-> file0]

SmallPaths == {"good", "fbpart", "big", "edge"}
OtherCfgs ==
    {Cfg(FALSE, None, None, TRUE), Cfg(TRUE, None, 1, TRUE),
     Cfg(TRUE, None, None, FALSE), Cfg(TRUE, 1, None, TRUE)}
OddManifests ==
    {<<Header, ShortLine, Row("good")>>, <<Header, Row("mixed"), LongLine>>,
     <<Row("good"), Row("mixed")>>}

Worlds ==
    {World(m, DefaultCfg, EmptyFile) : m \in Manifests(Paths, Neighbours)}
    \cup {World(m, c, EmptyFile) : m \in Manifests(SmallPaths, Neighbours), c \in OtherCfgs}
    \cup {World(m, DefaultCfg, OldFile) : m \in Manifests(SmallPaths, Neighbours)}
    \cup {World(m, c, EmptyFile) : m \in OddManifests, c \in {DefaultCfg, Cfg(TRUE, 1, None, TRUE)}}
    \cup {World(<<Header, Row("edge"), Row("big")>>, Cfg(TRUE, None, 1, TRUE), EmptyFile)}
    \cup {World(<<Header, Row("twin")>>, Cfg(FALSE, None, None, TRUE), EmptyFile)}
    \cup {World(m, DefaultCfg, TightFile) : m \in Manifests({"good", "mixed"}, Neighbours)}

\* ------------------------------------------------------------------ state
VARIABLES
    world,            \* manifest, parameters and first output file
    run,              \* number of runs started
    pc,               \* where the running call is: "idle", "loop", "download",
                      \* "fallback", "open", "nxml", "parse", "fig", "extract",
                      \* "append", "done", "dead"
    jsonl, tail,      \* the output file
    images,           \* the image tree: path string -> stored image
    tmpTar,           \* the entry's temp directory: "nodir", or the state of
                      \* the archive file in it: "nofile", "partial", "full"
    nxmlTmp,          \* temp markup files of this run that exist
    existing_pairs, entries, idx, n_written, n_skipped,
    parsed_figs, img_tar_members, pmid, pmc, wrote_any, figi, member, saved_path,
    snap,             \* history: counters, set, images and file when the entry began
    hRun,             \* history: the appends of this run (entry, caption, record)
    hRaised,          \* history: entries of this run ended by an except clause
    prevDone,         \* history: the file when the previous run finished
    hKilled,          \* history: some run was terminated
    hCuts,            \* history: number of writes cut by a termination
    hReq,             \* history: the requests this run sent (entry, endpoint, method)
    jfPending,        \* the open output file holds text that a failed write left
    files,            \* the files the manifest scripts wrote: name -> lines
    script            \* the locals of the manifest script that is running

durable == <<jsonl, tail, images>>
locals  == <<parsed_figs, img_tar_members, pmid, pmc, wrote_any, figi, member, saved_path>>
vars == <<world, run, pc, jsonl, tail, images, tmpTar, nxmlTmp, existing_pairs,
          entries, idx, n_written, n_skipped, parsed_figs, img_tar_members, pmid,
          pmc, wrote_any, figi, member, saved_path, snap, hRun, hRaised,
          prevDone, hKilled, hCuts, hReq, jfPending, files, script>>

NoPath == [dir |-> "", stem |-> "", suffix |-> ""]
NoSnap == [nw |-> 0, ns |-> 0, ex |-> {}, im |-> <<>>, lines |-> <<>>, tl |-> <<>>]
NoFile == <<"none">>
NoScript == [name |-> "none"]

cfg == world.cfg

ResetLocals ==
    /\ parsed_figs' = <<>>
    /\ img_tar_members' = <<>>
    /\ pmid' = ""
    /\ pmc' = ""
    /\ wrote_any' = FALSE
    /\ figi' = 0
    /\ member' = NoMember
    /\ saved_path' = NoPath

Init ==
    /\ world \in Worlds
    /\ run = 0
    /\ pc = "idle"
    /\ jsonl = world.file0.lines
    /\ tail = world.file0.tail
    /\ images = <<>>
    /\ tmpTar = "nodir"
    /\ nxmlTmp = 0
    /\ existing_pairs = {}
    /\ entries = <<>>
    /\ idx = 0
    /\ n_written = 0
    /\ n_skipped = 0
    /\ parsed_figs = <<>>
    /\ img_tar_members = <<>>
    /\ pmid = ""
    /\ pmc = ""
    /\ wrote_any = FALSE
    /\ figi = 0
    /\ member = NoMember
    /\ saved_path = NoPath
    /\ snap = NoSnap
    /\ hRun = <<>>
    /\ hRaised = {}
    /\ prevDone = NoFile
    /\ hKilled = FALSE
    /\ hCuts = 0
    /\ hReq = <<>>
    /\ jfPending = FALSE
    /\ files = <<>>
    /\ script = NoScript

\* The call starts: the resume scan, the manifest, the counters (lines 329-361)
StartRun ==
    /\ pc \in {"idle", "dead", "done", "crashed"}
    /\ run < MaxRuns
    /\ run' = run + 1
    /\ existing_pairs' = IF cfg.resume THEN LoadExisting(jsonl, tail) ELSE {}
    /\ entries' = ReadList(world.manifest, cfg.subset_size)
    /\ n_written' = 0
    /\ n_skipped' = 0
    /\ idx' = 1
    /\ pc' = "loop"
    /\ tmpTar' = "nodir"
    /\ nxmlTmp' = 0
    /\ snap' = NoSnap
    /\ hRun' = <<>>
    /\ hRaised' = {}
    /\ prevDone' = IF pc = "done" THEN <<jsonl, tail>> ELSE NoFile
    /\ hReq' = <<>>
    /\ jfPending' = FALSE
    /\ ResetLocals
    /\ UNCHANGED <<world, files, script, durable, hKilled, hCuts>>

ent == entries[idx]
pkg == Pkg(ent.path)

\* requests.head / requests.get sent for the entry at idx
Request(to, method) == [e |-> idx, to |-> to, method |-> method]
\* the HEAD of _response_size is sent only when a ceiling is configured
SizeProbe ==
    hReq' = IF cfg.max_filesize_mb # None
            THEN Append(hReq, Request("primary", "HEAD")) ELSE hReq

TakeSnap ==
    snap' = [nw |-> n_written, ns |-> n_skipped, ex |-> existing_pairs, im |-> images,
             lines |-> jsonl, tl |-> tail]

\* The entry ends: temp directory removed, next entry
LeaveEntry(skipped, raised) ==
    /\ n_skipped' = IF skipped THEN n_skipped + 1 ELSE n_skipped
    /\ hRaised' = IF raised THEN hRaised \cup {idx} ELSE hRaised
    /\ idx' = idx + 1
    /\ pc' = "loop"
    /\ tmpTar' = "nodir"
    /\ ResetLocals

\* an except clause of lines 463-471
Except == LeaveEntry(TRUE, TRUE)
\* `n_skipped += 1; continue`
SkipContinue == LeaveEntry(TRUE, FALSE)

\* The loop is exhausted: the output file is closed and the summary printed
\* (line 475); closing a file that holds text of a failed write raises, and
\* the call ends without the summary
Finish ==
    /\ pc = "loop"
    /\ idx > Len(entries)
    /\ pc' = IF jfPending THEN "crashed" ELSE "done"
    /\ UNCHANGED <<world, files, script, run, durable, tmpTar, nxmlTmp, existing_pairs, entries, idx,
                   n_written, n_skipped, locals, snap, hRun, hRaised, prevDone, hKilled, hCuts, hReq, jfPending>>

\* The size guard skips the entry (lines 367-373)
SizeSkip ==
    /\ pc = "loop"
    /\ idx <= Len(entries)
    /\ TooBig(pkg, cfg.max_filesize_mb)
    /\ TakeSnap
    /\ SizeProbe
    /\ n_skipped' = n_skipped + 1
    /\ idx' = idx + 1
    /\ UNCHANGED <<world, files, script, run, pc, durable, tmpTar, nxmlTmp, existing_pairs, entries,
                   n_written, locals, hRun, hRaised, prevDone, hKilled, hCuts, jfPending>>

\* The temp directory of the entry is created (line 376)
BeginEntry ==
    /\ pc = "loop"
    /\ idx <= Len(entries)
    /\ ~TooBig(pkg, cfg.max_filesize_mb)
    /\ TakeSnap
    /\ SizeProbe
    /\ tmpTar' = "nofile"
    /\ pc' = "download"
    /\ UNCHANGED <<world, files, script, run, durable, nxmlTmp, existing_pairs, entries, idx,
                   n_written, n_skipped, locals, hRun, hRaised, prevDone, hKilled, hCuts, jfPending>>

\* The download from the primary endpoint (lines 379-383, 301-305)
DownloadPrimary ==
    /\ pc = "download"
    /\ hReq' = Append(hReq, Request("primary", "GET"))
    /\ LET r == StreamDownload(pkg.prim, tmpTar)
       IN  IF ~r.raised
           THEN /\ tmpTar' = r.file
                /\ pc' = "open"
                /\ UNCHANGED <<idx, n_skipped, hRaised, locals>>
           ELSE IF cfg.use_dual_base
           THEN /\ tmpTar' = r.file
                /\ pc' = "fallback"
                /\ UNCHANGED <<idx, n_skipped, hRaised, locals>>
           ELSE Except
    /\ UNCHANGED <<world, files, script, run, durable, nxmlTmp, existing_pairs, entries, n_written,
                   snap, hRun, prevDone, hKilled, hCuts, jfPending>>

\* The download from the fallback endpoint (lines 306-313)
DownloadFallback ==
    /\ pc = "fallback"
    /\ hReq' = Append(hReq, Request("fallback", "GET"))
    /\ LET r == StreamDownload(pkg.fb, tmpTar)
       IN  IF ~r.raised
           THEN /\ tmpTar' = r.file
                /\ pc' = "open"
                /\ UNCHANGED <<idx, n_skipped, hRaised, locals>>
           ELSE Except
    /\ UNCHANGED <<world, files, script, run, durable, nxmlTmp, existing_pairs, entries, n_written,
                   snap, hRun, prevDone, hKilled, hCuts, jfPending>>

\* The archive is opened and its markup members listed (lines 385-389)
OpenTar ==
    /\ pc = "open"
    /\ IF ~SafeOpenTar(tmpTar, pkg) THEN Except
       ELSE IF MembersByExt(pkg.members, <<ExtNxml>>) = <<>> THEN SkipContinue
       ELSE /\ pc' = "nxml"
            /\ UNCHANGED <<idx, n_skipped, hRaised, tmpTar, locals>>
    /\ UNCHANGED <<world, files, script, run, durable, nxmlTmp, existing_pairs, entries, n_written,
                   snap, hRun, prevDone, hKilled, hCuts, hReq, jfPending>>

\* The markup bytes are read and written to a temp file (lines 391, 77-79)
WriteTmpNxml ==
    /\ pc = "nxml"
    /\ LET m == MembersByExt(pkg.members, <<ExtNxml>>)[1]
       IN  IF ~m.readable
           THEN Except /\ UNCHANGED nxmlTmp
           ELSE IF ~pkg.tmpok
           THEN Except /\ nxmlTmp' = nxmlTmp + 1
           ELSE /\ nxmlTmp' = nxmlTmp + 1
                /\ pc' = "parse"
                /\ UNCHANGED <<idx, n_skipped, hRaised, tmpTar, locals>>
    /\ UNCHANGED <<world, files, script, run, durable, existing_pairs, entries, n_written,
                   snap, hRun, prevDone, hKilled, hCuts, hReq, jfPending>>

\* The markup is parsed and the temp file unlinked; the image members are
\* indexed (lines 80-86, 392-410)
ParseNxml ==
    /\ pc = "parse"
    /\ nxmlTmp' = nxmlTmp - 1
    /\ IF pkg.parse \in {"xmlerr", "attrerr"} THEN SkipContinue
       ELSE IF pkg.parse # "ok" THEN Except
       ELSE IF pkg.figs = <<>> THEN SkipContinue
       ELSE /\ parsed_figs' = pkg.figs
            /\ img_tar_members' = ImgTarMembers(pkg.members)
            /\ pmid' = OrDefault(pkg.figs[1].pmid, ent.pmid)
            /\ pmc' = OrDefault(pkg.figs[1].pmc, ent.pmcid)
            /\ wrote_any' = FALSE
            /\ figi' = 1
            /\ pc' = "fig"
            /\ UNCHANGED <<idx, n_skipped, hRaised, tmpTar, member, saved_path>>
    /\ UNCHANGED <<world, files, script, run, durable, existing_pairs, entries, n_written,
                   snap, hRun, prevDone, hKilled, hCuts, hReq, jfPending>>

fig == parsed_figs[figi]

NextCaption ==
    /\ figi' = figi + 1
    /\ pc' = "fig"
    /\ member' = NoMember
    /\ saved_path' = NoPath
    /\ UNCHANGED <<idx, n_skipped, hRaised, tmpTar, parsed_figs, img_tar_members,
                   pmid, pmc, wrote_any>>

\* One caption up to the dedup test (lines 411-437)
FigHead ==
    /\ pc = "fig"
    /\ figi <= Len(parsed_figs)
    /\ LET fig_caption == Strip(fig.fig_caption)
           graphic_ref == fig.graphic_ref
           m           == MatchMember(graphic_ref, img_tar_members)
           pair_id     == PairId(pmid, fig.fig_id)
       IN  IF ~CaptionUsable(fig_caption, graphic_ref) THEN NextCaption
           ELSE IF m = NoMember THEN NextCaption
           ELSE IF cfg.resume /\ pair_id \in existing_pairs THEN NextCaption
           ELSE /\ member' = m
                /\ pc' = "extract"
                /\ UNCHANGED <<idx, n_skipped, hRaised, tmpTar, parsed_figs,
                               img_tar_members, pmid, pmc, wrote_any, figi, saved_path>>
    /\ UNCHANGED <<world, files, script, run, durable, nxmlTmp, existing_pairs, entries, n_written,
                   snap, hRun, prevDone, hKilled, hCuts, hReq, jfPending>>

\* The captions are exhausted (lines 460-461, 473)
EndEntry ==
    /\ pc = "fig"
    /\ figi > Len(parsed_figs)
    /\ LeaveEntry(WroteNothing(wrote_any), FALSE)
    /\ UNCHANGED <<world, files, script, run, durable, nxmlTmp, existing_pairs, entries, n_written,
                   snap, hRun, prevDone, hKilled, hCuts, hReq, jfPending>>

\* The member's bytes are read, normalized and saved (lines 439-446)
ExtractSave ==
    /\ pc = "extract"
    /\ IF ~member.readable
       THEN Except /\ UNCHANGED images
       ELSE LET r == EnsureJpegAndSave(member, ImgRel(pmc, fig.fig_id))
            IN  IF ~r.ok
                THEN /\ IF CodecErrorAction = "continue" THEN NextCaption ELSE Except
                     /\ UNCHANGED images
                ELSE /\ images' = (PathStr(r.path) :> r.img) @@ images
                     /\ saved_path' = r.path
                     /\ pc' = "append"
                     /\ UNCHANGED <<idx, n_skipped, hRaised, tmpTar, parsed_figs,
                                    img_tar_members, pmid, pmc, wrote_any, figi, member>>
    /\ UNCHANGED <<world, files, script, run, jsonl, tail, nxmlTmp, existing_pairs, entries, n_written,
                   snap, hRun, prevDone, hKilled, hCuts, hReq, jfPending>>

record ==
    Record(PathStr(saved_path), Strip(fig.fig_caption), pmid, pmc, PairId(pmid, fig.fig_id))

\* The device of the output file has no room for another line
DeviceFull(lines) == world.file0.room # None /\ Len(lines) >= world.file0.room

\* The record is written as one line (lines 448-458); a write the device
\* refuses raises and leaves its text in the file object
AppendRecord ==
    /\ pc = "append"
    /\ IF DeviceFull(jsonl)
       THEN /\ Except
            /\ jfPending' = TRUE
            /\ UNCHANGED <<jsonl, tail, existing_pairs, n_written, hRun>>
       ELSE /\ jsonl' = WriteLine(jsonl, tail, record)
            /\ tail' = <<>>
            /\ existing_pairs' = existing_pairs \cup {record.pair_id}
            /\ n_written' = n_written + 1
            /\ wrote_any' = TRUE
            /\ hRun' = Append(hRun, [e |-> idx, f |-> figi, rec |-> record])
            /\ figi' = figi + 1
            /\ pc' = "fig"
            /\ member' = NoMember
            /\ saved_path' = NoPath
            /\ UNCHANGED <<tmpTar, idx, n_skipped, parsed_figs, img_tar_members, pmid, pmc,
                           hRaised, jfPending>>
    /\ UNCHANGED <<world, files, script, run, images, nxmlTmp, entries, snap, prevDone, hKilled, hCuts,
                   hReq>>

Running ==
    {"loop", "download", "fallback", "open", "nxml", "parse", "fig", "extract", "append"}

\* What is left of a terminated process: nothing but the files
Dead ==
    /\ pc' = "dead"
    /\ hKilled' = TRUE
    /\ tmpTar' = "nodir"
    /\ nxmlTmp' = 0
    /\ existing_pairs' = {}
    /\ entries' = <<>>
    /\ idx' = 0
    /\ n_written' = 0
    /\ n_skipped' = 0
    /\ snap' = NoSnap
    /\ hRun' = <<>>
    /\ hRaised' = {}
    /\ prevDone' = NoFile
    /\ hReq' = <<>>
    /\ jfPending' = FALSE
    /\ ResetLocals
    /\ UNCHANGED <<world, files, script, run, images>>

\* The process is terminated between two steps
Terminate ==
    /\ pc \in Running
    /\ Dead
    /\ UNCHANGED <<jsonl, tail, hCuts>>

\* The process is terminated while line 455 writes: part of the text, or all
\* of it but the newline, is in the file
TerminateInWrite ==
    /\ pc = "append"
    /\ ~DeviceFull(jsonl)
    /\ hCuts < MaxCuts
    /\ \E whole \in BOOLEAN : tail' = tail \o CutText(record, whole)
    /\ hCuts' = hCuts + 1
    /\ Dead
    /\ UNCHANGED jsonl

Next ==
    \/ StartRun
    \/ Finish
    \/ SizeSkip
    \/ BeginEntry
    \/ DownloadPrimary
    \/ DownloadFallback
    \/ OpenTar
    \/ WriteTmpNxml
    \/ ParseNxml
    \/ FigHead
    \/ EndEntry
    \/ ExtractSave
    \/ AppendRecord
    \/ Terminate
    \/ TerminateInWrite

Spec == Init /\ [][Next]_vars

\* ------------------------------------------- what a run is meant to produce
\* The effect of the caption loop on acc, computed caption by caption from the
\* package alone: acc holds the file, the set, the images, the written count,
\* whether a record was written and whether an exception left the loop.
RECURSIVE CaptionsEffect(_, _, _, _, _, _, _)
CaptionsEffect(figs, i, d, pm, pcid, resume, acc) ==
    IF i > Len(figs) \/ acc.raised THEN acc
    ELSE LET g   == figs[i]
             cap == Strip(g.fig_caption)
             m   == MatchMember(g.graphic_ref, d)
             pid == PairId(pm, g.fig_id)
             p   == ImgRel(pcid, g.fig_id)
             rec == Record(PathStr(p), cap, pm, pcid, pid)
         IN  IF cap = "" \/ g.graphic_ref = <<>> \/ m = NoMember \/ (resume /\ pid \in acc.ex)
             THEN CaptionsEffect(figs, i + 1, d, pm, pcid, resume, acc)
             ELSE IF ~m.readable THEN [acc EXCEPT !.raised = TRUE]
             ELSE IF ~Decodes(m.mode)
             THEN CaptionsEffect(figs, i + 1, d, pm, pcid, resume, acc)
             ELSE IF DeviceFull(acc.lines)
             THEN [acc EXCEPT !.raised = TRUE,
                              !.im = (PathStr(p) :> [mode |-> "RGB", format |-> "JPEG",
                                                     src |-> m.name]) @@ acc.im]
             ELSE CaptionsEffect(figs, i + 1, d, pm, pcid, resume,
                      [acc EXCEPT !.lines = Append(acc.lines, acc.tl \o Dumps(rec)),
                                  !.tl = <<>>,
                                  !.ex = acc.ex \cup {pid},
                                  !.im = (PathStr(p) :> [mode |-> "RGB", format |-> "JPEG",
                                                         src |-> m.name]) @@ acc.im,
                                  !.nw = acc.nw + 1,
                                  !.wrote = TRUE])

Skipped(st) == [st EXCEPT !.ns = st.ns + 1]

\* The archive cannot be used at all: unreadable, no markup, markup that cannot
\* be staged or parsed, no captions
ArchiveFails(pk) ==
    \/ ~pk.gz
    \/ \A i \in 1..Len(pk.members) : ~EndsWith(LowerStr(pk.members[i].name), ExtNxml)
    \/ ~pk.tmpok
    \/ pk.parse # "ok"
    \/ pk.figs = <<>>

\* The effect of one entry whose archive was retrieved whole
ArchiveEffect(e, st, resume) ==
    LET pk == Pkg(e.path)
    IN  IF ArchiveFails(pk) THEN Skipped(st)
        ELSE LET r == CaptionsEffect(pk.figs, 1, ImgTarMembers(pk.members),
                                     OrDefault(pk.figs[1].pmid, e.pmid),
                                     OrDefault(pk.figs[1].pmc, e.pmcid), resume,
                                     [lines |-> st.lines, tl |-> st.tl, ex |-> st.ex,
                                      im |-> st.im, nw |-> st.nw, wrote |-> FALSE,
                                      raised |-> FALSE])
             IN  [lines |-> r.lines, tl |-> r.tl, ex |-> r.ex, im |-> r.im, nw |-> r.nw,
                  ns |-> IF r.raised \/ ~r.wrote THEN st.ns + 1 ELSE st.ns]

RetrievalFails(pk, c) == pk.prim # "ok" /\ (~c.use_dual_base \/ pk.fb # "ok")

EntryEffect(e, st, c) ==
    IF TooBig(Pkg(e.path), c.max_filesize_mb) \/ RetrievalFails(Pkg(e.path), c)
    THEN Skipped(st)
    ELSE ArchiveEffect(e, st, c.resume)

RECURSIVE RunEffectFrom(_, _, _, _)
RunEffectFrom(es, i, st, c) ==
    IF i > Len(es) THEN st ELSE RunEffectFrom(es, i + 1, EntryEffect(es[i], st, c), c)

\* One uninterrupted run of the call on the first output file
RunEffect(w) ==
    RunEffectFrom(ReadList(w.manifest, w.cfg.subset_size), 1,
                  [lines |-> w.file0.lines, tl |-> w.file0.tail,
                   ex |-> IF w.cfg.resume
                          THEN {Loads(w.file0.lines[i]).pair_id :
                                  i \in {j \in 1..Len(w.file0.lines) :
                                           /\ Parses(w.file0.lines[j])
                                           /\ Loads(w.file0.lines[j]).pair_id # ""}}
                          ELSE {},
                   im |-> <<>>, nw |-> 0, ns |-> 0], w.cfg)

\* The entry before idx has just ended
EntryEnded == pc \in {"loop", "done"} /\ idx > 1
Last == entries[idx - 1]
LastPkg == Pkg(Last.path)
AppendsOf(e) == SelectSeq(hRun, LAMBDA h : h.e = e)
SnapState ==
    [lines |-> snap.lines, tl |-> snap.tl, ex |-> snap.ex, im |-> snap.im,
     nw |-> snap.nw, ns |-> snap.ns]
NowState ==
    [lines |-> jsonl, tl |-> tail, ex |-> existing_pairs, im |-> images,
     nw |-> n_written, ns |-> n_skipped]

\* A run without termination produces what RunEffect computes
RunMatchesEffect ==
    (pc = "done" /\ run = 1) =>
        LET r == RunEffect(world)
        IN  /\ jsonl = r.lines /\ tail = r.tl /\ images = r.im
            /\ n_written = r.nw /\ n_skipped = r.ns

\* ---------------------------------------------------------------- claims
ExpectedFile == LET r == RunEffect(world) IN <<r.lines, r.tl>>

\* The pair_ids a line carries: those of the complete records written into it
LinePairIds(line) ==
    {line[k].rec.pair_id : k \in {n \in 1..Len(line) : ~line[n].cut}} \ {""}

\* C1: with resume enabled, whatever runs were started and wherever they were
\* terminated, no two lines of the output file carry the same pair_id.
C1_Uniqueness ==
    cfg.resume =>
        LET L == AllLines(jsonl, tail)
        IN  \A i, j \in 1..Len(L) :
                i # j => LinePairIds(L[i]) \cap LinePairIds(L[j]) = {}

\* The same, as long as no termination fell inside a write of a line
UniqueWithoutCutWrite ==
    (cfg.resume /\ hCuts = 0) =>
        LET L == AllLines(jsonl, tail)
        IN  \A i, j \in 1..Len(L) :
                i # j => LinePairIds(L[i]) \cap LinePairIds(L[j]) = {}

\* The pair_id the resume scan reads from a line ("" when the line does not
\* parse): among the lines that parse, pair_ids are unique in every state
LinePairId(line) == IF Parses(line) THEN Loads(line).pair_id ELSE ""
UniqueAmongParsedLines ==
    cfg.resume =>
        LET L == AllLines(jsonl, tail)
        IN  \A i, j \in 1..Len(L) :
                (i # j /\ LinePairId(L[i]) # "") => LinePairId(L[i]) # LinePairId(L[j])

\* The records a reader of the file gets: the documents of the lines that
\* parse, in file order
RecordsOf(lines, tl) ==
    LET L == SelectSeq(AllLines(lines, tl), Parses)
    IN  [i \in 1..Len(L) |-> Loads(L[i])]

\* C2: once some run was terminated, a run with resume enabled that finishes
\* leaves the output file holding exactly the records one uninterrupted run
\* produces, each once.
C2_ResumeAfterTermination ==
    (pc = "done" /\ cfg.resume /\ hKilled) =>
        RecordsOf(jsonl, tail) = RecordsOf(ExpectedFile[1], ExpectedFile[2])

\* The same, as long as no termination fell inside a write of a line
ResumeWithoutCutWrite ==
    (pc = "done" /\ cfg.resume /\ hCuts = 0) =>
        RecordsOf(jsonl, tail) = RecordsOf(ExpectedFile[1], ExpectedFile[2])

\* C3: a run with resume enabled that finishes right after a run that finished
\* leaves the output file as that run left it.
C3_Idempotence ==
    (pc = "done" /\ cfg.resume /\ prevDone # NoFile) => <<jsonl, tail>> = prevDone

\* The same, as long as no termination fell inside a write of a line
IdempotentWithoutCutWrite ==
    (pc = "done" /\ cfg.resume /\ prevDone # NoFile /\ hCuts = 0) =>
        <<jsonl, tail>> = prevDone

FigOK(e, f) ==
    LET pk == Pkg(entries[e].path)
        g  == pk.figs[f]
        m  == MatchMember(g.graphic_ref, ImgTarMembers(pk.members))
    IN  /\ Strip(g.fig_caption) # ""
        /\ g.graphic_ref # <<>>
        /\ m # NoMember
        /\ m.readable
        /\ Decodes(m.mode)

\* C5: every record this run appended belongs to a caption with a caption text
\* and a reference that resolved to a member that decoded, and names a path
\* at which a normalized image file exists.
C5_NoPartialRecord ==
    \A i \in 1..Len(hRun) :
        LET h == hRun[i]
        IN  /\ FigOK(h.e, h.f)
            /\ h.rec.caption # ""
            /\ h.rec.image \in DOMAIN images
            /\ images[h.rec.image].mode = "RGB"
            /\ images[h.rec.image].format = "JPEG"

\* a record written for a caption that follows captions that were dropped
C5_Witness ==
    /\ Len(hRun) > 0
    /\ hRun[Len(hRun)].f = 5
    /\ pc = "fig"

\* C6: an entry whose primary download failed and whose fallback download
\* succeeded ends with the file, the images and the counters that the archive
\* retrieved whole gives.
C6_FallbackCorrect ==
    (/\ EntryEnded
     /\ cfg.use_dual_base
     /\ ~TooBig(LastPkg, cfg.max_filesize_mb)
     /\ LastPkg.prim # "ok" /\ LastPkg.fb = "ok")
    => NowState = ArchiveEffect(Last, SnapState, cfg.resume)

\* the fallback replaced a partly written archive and a record was written
C6_Witness ==
    /\ EntryEnded
    /\ cfg.use_dual_base
    /\ LastPkg.prim = "partial" /\ LastPkg.fb = "ok"
    /\ n_written = snap.nw + 1
    /\ n_skipped = snap.ns

\* C7: between two entries neither the temp archive directory nor a temp
\* markup file of the run exists.
C7_Cleanup ==
    pc \in {"loop", "done"} => (tmpTar = "nodir" /\ nxmlTmp = 0)

\* Caption-level failure of caption g of package pk
CaptionFails(pk, g) ==
    LET m == MatchMember(g.graphic_ref, ImgTarMembers(pk.members))
    IN  \/ Strip(g.fig_caption) = ""
        \/ g.graphic_ref = <<>>
        \/ m = NoMember
        \/ (m.readable /\ ~Decodes(m.mode))
\* Reading the member of caption g raises
ReadRaises(pk, g) ==
    LET m == MatchMember(g.graphic_ref, ImgTarMembers(pk.members))
    IN  /\ Strip(g.fig_caption) # "" /\ g.graphic_ref # <<>>
        /\ m # NoMember /\ ~m.readable

EntryLevelFailure(pk, c) ==
    TooBig(pk, c.max_filesize_mb) \/ RetrievalFails(pk, c) \/ ArchiveFails(pk)

\* C8: in an entry that reached its captions, a caption that follows a caption
\* dropped at caption level, and whose own text, match and normalization are
\* good, is written (or was in the set already); and the entry is not ended
\* by an exception unless reading a member raised. The case is one where
\* the device took every record written so far.
C8_CaptionIsolation ==
    (EntryEnded /\ ~EntryLevelFailure(LastPkg, cfg) /\ ~jfPending) =>
        LET figs == LastPkg.figs
            PidOf(j) == PairId(OrDefault(figs[1].pmid, Last.pmid), figs[j].fig_id)
        IN  /\ \A j \in 1..Len(figs) :
                  (/\ FigOK(idx - 1, j)
                   /\ \E i \in 1..(j - 1) : CaptionFails(LastPkg, figs[i])
                   /\ \A k \in 1..j : ~ReadRaises(LastPkg, figs[k]))
                  => \/ cfg.resume /\ PidOf(j) \in snap.ex
                     \/ \E n \in 1..Len(hRun) :
                           /\ hRun[n].e = idx - 1
                           /\ hRun[n].f <= j
                           /\ hRun[n].rec.pair_id = PidOf(j)
            /\ (\A k \in 1..Len(figs) : ~ReadRaises(LastPkg, figs[k]))
                  => (idx - 1) \notin hRaised

\* four captions dropped at caption level, the fifth written
C8_Witness ==
    /\ EntryEnded
    /\ Last.path = "mixed"
    /\ \E n \in 1..Len(hRun) : hRun[n].e = idx - 1 /\ hRun[n].f = 5

\* C9: an entry that fails at entry level appends nothing, writes no image,
\* adds one to n_skipped and nothing to n_written, and the loop goes on; such
\* an entry never reaches its captions.
C9_EntryLevelFailure ==
    /\ (EntryEnded /\ EntryLevelFailure(LastPkg, cfg)) =>
          /\ jsonl = snap.lines /\ tail = snap.tl
          /\ images = snap.im
          /\ n_skipped = snap.ns + 1
          /\ n_written = snap.nw
    /\ (pc \in {"fig", "extract", "append"}) => ~EntryLevelFailure(pkg, cfg)

\* the entry after a failed entry is being processed
C9_Witness ==
    /\ pc = "download" /\ idx = 2
    /\ EntryLevelFailure(Pkg(entries[1].path), cfg)
    /\ n_skipped = 1

\* C10: n_skipped is incremented for an entry if and only if no record was
\* written for it.
C10_SkippedIffNothingWritten ==
    EntryEnded =>
        /\ (n_skipped - snap.ns) \in {0, 1}
        /\ (n_skipped = snap.ns + 1) <=> (AppendsOf(idx - 1) = <<>>)

\* -------------------------------------------------- the matcher on its own
\* The call stands at the matching of one caption (lines 418-433) with an
\* index built from a list of archive members and a graphic reference.
MaxMembers == 3

NameF1a   == <<"f", "1", "a", ".", "p", "n", "g">>
NameF1J   == <<"F", "1", ".", "J", "P", "E", "G">>
NameF1T   == <<"f", "1", ".", "t", "i", "f", "f">>
NameXF2   == <<"x", "f", "2", ".", "t", "i", "f">>
NameFig3  == <<"f", "i", "g", "3", ".", "p", "n", "g">>
NameOther == <<"o", "t", "h", "e", "r", ".", "j", "p", "g">>
NameDir   == <<"f", "1", ".", "p", "n", "g">>
RefFig3   == <<"f", "i", "g", "3">>
RefF1Up   == <<"F", "1">>
RefF1Jpg  == <<"a", "/", "F", "1", ".", "j", "p", "g">>
RefF2Up   == <<"F", "2", ".", "P", "N", "G">>
RefF      == <<"f">>
RefF1Dot  == <<"f", "1", ".", "x">>

MemberPool ==
    {MF1, MF2, MTxt,
     Member(NameF1a, TRUE, "RGB", TRUE), Member(NameF1J, TRUE, "RGB", TRUE),
     Member(NameF1T, TRUE, "RGB", TRUE), Member(NameXF2, TRUE, "RGB", TRUE),
     Member(NameFig3, TRUE, "RGB", TRUE), Member(NameOther, TRUE, "RGB", TRUE),
     Member(NameDir, FALSE, "none", FALSE)}
MemberLists == UNION {[1..n -> MemberPool] : n \in 0..MaxMembers}
Refs ==
    {RefF1, RefF2, RefZZ, RefFig3, RefF1Up, RefF1Jpg, RefF2Up, RefF, RefF1Dot}

MatchInit ==
    /\ world = World(<<Header>>, DefaultCfg, EmptyFile)
    /\ run = 1
    /\ pc = "fig"
    /\ jsonl = <<>>
    /\ tail = <<>>
    /\ images = <<>>
    /\ tmpTar = "full"
    /\ nxmlTmp = 0
    /\ existing_pairs = {}
    /\ entries = <<>>
    /\ idx = 1
    /\ n_written = 0
    /\ n_skipped = 0
    /\ \E ref \in Refs : parsed_figs = <<Fig("", "", "1", "A cell.", ref)>>
    /\ \E ms \in MemberLists : img_tar_members = ImgTarMembers(ms)
    /\ pmid = "1001"
    /\ pmc = "PMC1"
    /\ wrote_any = FALSE
    /\ figi = 1
    /\ member = NoMember
    /\ saved_path = NoPath
    /\ snap = NoSnap
    /\ hRun = <<>>
    /\ hRaised = {}
    /\ prevDone = NoFile
    /\ hKilled = FALSE
    /\ hCuts = 0
    /\ hReq = <<>>
    /\ jfPending = FALSE
    /\ files = <<>>
    /\ script = NoScript

\* lines 418-433: the candidates, the scan of the index, the member
Match ==
    /\ pc = "fig"
    /\ member' = MatchMember(fig.graphic_ref, img_tar_members)
    /\ pc' = "matched"
    /\ UNCHANGED <<world, files, script, run, durable, tmpTar, nxmlTmp, existing_pairs, entries, idx,
                   n_written, n_skipped, parsed_figs, img_tar_members, pmid, pmc,
                   wrote_any, figi, saved_path, snap, hRun, hRaised, prevDone,
                   hKilled, hCuts, hReq, jfPending>>

MatchSpec == MatchInit /\ [][Match]_vars

\* What the claim says the matcher returns, every comparison made on
\* lower-cased names as the index is keyed
ClaimedMatch(graphic_ref, d) ==
    LET base  == LowerStr(PathName(graphic_ref))
        stem  == LowerStr(PathStem(PathName(graphic_ref)))
        exts  == {i \in 1..Len(ImageExts) : DictHas(d, stem \o ImageExts[i])}
        subs  == {i \in 1..Len(d) : Contains(d[i].k, stem)}
    IN  IF DictHas(d, base) THEN DictGet(d, base)
        ELSE IF exts # {} THEN DictGet(d, stem \o ImageExts[Min(exts)])
        ELSE IF subs # {} THEN d[Min(subs)].v
        ELSE NoMember

\* C11: the matcher returns the member keyed by the reference's basename, else
\* the member of the first of stem+.jpg, .jpeg, .png, .tif, .tiff in the
\* index, else the first indexed basename that contains the stem, else none.
C11_MatchingPrecedence ==
    pc = "matched" => member = ClaimedMatch(fig.graphic_ref, img_tar_members)

\* The same for references whose stem has no upper-case letter
MatchingPrecedenceLowerStem ==
    (/\ pc = "matched"
     /\ PathStem(PathName(fig.graphic_ref)) = LowerStr(PathStem(PathName(fig.graphic_ref))))
    => member = ClaimedMatch(fig.graphic_ref, img_tar_members)

\* The substring scan decides only when no candidate is in the index
SubstringScanLast ==
    (/\ pc = "matched"
     /\ \E i \in 1..Len(Candidates(fig.graphic_ref)) :
            DictHas(img_tar_members, Candidates(fig.graphic_ref)[i]))
    => /\ member # NoMember
       /\ \E i \in 1..Len(Candidates(fig.graphic_ref)) :
              LowerStr(PathName(member.name)) = Candidates(fig.graphic_ref)[i]

\* ------------------------------------------------------------ size guard
RequestsOf(e) == SelectSeq(hReq, LAMBDA r : r.e = e)
Downloads(e) == SelectSeq(hReq, LAMBDA r : r.e = e /\ r.method = "GET")

\* The primary endpoint reports a length strictly above the configured ceiling
AboveCeiling(pk, c) ==
    /\ c.max_filesize_mb # None
    /\ pk.len # None
    /\ pk.len > c.max_filesize_mb * 1024 * 1024

\* C12: an entry whose reported length is above a configured ceiling is
\* skipped with no download request and no temp storage; any other entry is
\* not skipped by the guard and its download is requested.
C12_SizeGuard ==
    /\ \A e \in 1..Len(entries) :
          AboveCeiling(Pkg(entries[e].path), cfg) => Downloads(e) = <<>>
    /\ (pc \in Running /\ tmpTar # "nodir") => ~AboveCeiling(pkg, cfg)
    /\ EntryEnded =>
          IF AboveCeiling(LastPkg, cfg)
          THEN /\ n_skipped = snap.ns + 1
               /\ NowState = Skipped(SnapState)
               /\ RequestsOf(idx - 1) = <<[e |-> idx - 1, to |-> "primary", method |-> "HEAD"]>>
          ELSE /\ Downloads(idx - 1) # <<>>
               /\ Downloads(idx - 1)[1].to = "primary"

\* after an entry of exactly the ceiling's size was downloaded and written, an
\* entry above the ceiling is skipped
C12_Witness ==
    /\ pc = "loop" /\ idx = 3
    /\ cfg.max_filesize_mb = 1
    /\ Pkg(entries[1].path).len = 1024 * 1024
    /\ Downloads(1) # <<>>
    /\ AboveCeiling(LastPkg, cfg)
    /\ n_skipped = snap.ns + 1

\* ---------------------------------------------------------- manifest rows
\* The lines after the first that split into exactly 5 fields, in file order
WellFormedRows(manifest) ==
    SelectSeq(IF manifest = <<>> THEN <<>> ELSE Tail(manifest), LAMBDA f : Len(f) = 5)

RowsInOrder ==
    (pc \in Running \cup {"done"}) =>
        LET W == WellFormedRows(world.manifest)
        IN  /\ Len(entries) <= Len(W)
            /\ \A i \in 1..Len(entries) :
                  entries[i] = [path |-> W[i][1], title |-> W[i][2], pmcid |-> W[i][3],
                                pmid |-> W[i][4], code |-> W[i][5]]
            /\ cfg.subset_size = None => Len(entries) = Len(W)
            /\ idx \in 1..(Len(entries) + 1)
            /\ n_written + n_skipped = 0 \/ idx > 1 \/ pc \notin {"loop", "done"}
            /\ n_skipped <= idx - 1
            /\ \A k \in 1..Len(hReq) : hReq[k].e \in 1..Len(entries)

\* within a run the loop only moves from one entry to the next
OneAtATime ==
    (pc \in Running /\ pc' \in Running \cup {"done"}) =>
        /\ entries' = entries
        /\ idx' \in {idx, idx + 1}
        /\ idx' = idx + 1 => pc' = "loop"

\* C13: the first line of the manifest is never an entry; a later line that
\* does not split into 5 fields is dropped without being attempted and without
\* changing a counter; the other rows are attempted one at a time in file
\* order, each at most once in a run.
C13_ManifestRows == []RowsInOrder /\ [][OneAtATime]_vars

\* a run over a manifest with a short line before a good row has finished
C13_Witness ==
    /\ pc = "done"
    /\ world.manifest = <<Header, ShortLine, Row("good")>>
    /\ cfg.subset_size = None
    /\ Len(entries) = 1
    /\ n_written = 2 /\ n_skipped = 0

\* ------------------------------------------------------------ image files
\* the step in which _ensure_jpeg_and_save stored a file (lines 439-446)
SavesImage == pc = "extract" /\ pc' = "append"

\* C14: with resume enabled, once an image file exists at a path, no later
\* step of this run or of a later run against the same files writes to that
\* path again.
C14_ImageWrittenOnce ==
    [][(SavesImage /\ cfg.resume) => PathStr(saved_path') \notin DOMAIN images]_vars

\* ---------------------------------------------------- duplicate suppression
\* C15: whatever the configuration, a record whose pair_id is in the in-memory
\* set is not appended, and no run appends two lines with the same pair_id.
C15_DuplicateSuppression ==
    /\ pc = "append" => record.pair_id \notin existing_pairs
    /\ \A i, j \in 1..Len(hRun) :
          i # j => hRun[i].rec.pair_id # hRun[j].rec.pair_id

\* The same for the runs with resume enabled
DuplicateSuppressionWithResume ==
    cfg.resume =>
        /\ pc = "append" => record.pair_id \notin existing_pairs
        /\ \A i, j \in 1..Len(hRun) :
              i # j => hRun[i].rec.pair_id # hRun[j].rec.pair_id

\* ------------------------------------------------------------ record format
FigIdOf(h) == Pkg(entries[h.e].path).figs[h.f].fig_id

Suffixes == {".jpg", ".JPG", ".Jpg", ".jpeg", ".png", ".PNG", ".tif", ""}
OutPaths ==
    {[dir |-> d, stem |-> st, suffix |-> su] :
        d \in {"", "PMC1", "a/b"}, st \in {"f", "PMC1_fig-1", "g.1"}, su \in Suffixes}
    \ {[dir |-> d, stem |-> "g.1", suffix |-> ""] : d \in {"", "PMC1", "a/b"}}
SourceModes == ImageModes \cup {"bad"}

NormInit ==
    /\ world = World(<<Header>>, DefaultCfg, EmptyFile)
    /\ run = 1
    /\ pc = "extract"
    /\ jsonl = <<>>
    /\ tail = <<>>
    /\ images = <<>>
    /\ tmpTar = "full"
    /\ nxmlTmp = 0
    /\ existing_pairs = {}
    /\ entries = <<>>
    /\ idx = 1
    /\ n_written = 0
    /\ n_skipped = 0
    /\ parsed_figs = OneFig
    /\ img_tar_members = <<>>
    /\ pmid = "1001"
    /\ pmc = "PMC1"
    /\ wrote_any = FALSE
    /\ figi = 1
    /\ \E mode \in SourceModes : member = Member(NameF1, TRUE, mode, TRUE)
    /\ saved_path \in OutPaths
    /\ snap = NoSnap
    /\ hRun = <<>>
    /\ hRaised = {}
    /\ prevDone = NoFile
    /\ hKilled = FALSE
    /\ hCuts = 0
    /\ hReq = <<>>
    /\ jfPending = FALSE
    /\ files = <<>>
    /\ script = NoScript

\* _ensure_jpeg_and_save(img_bytes, out_path) with out_path = saved_path
Normalize ==
    /\ pc = "extract"
    /\ LET r == EnsureJpegAndSave(member, saved_path)
       IN  IF r.ok
           THEN /\ images' = (PathStr(r.path) :> r.img) @@ images
                /\ saved_path' = r.path
                /\ pc' = "saved"
           ELSE /\ pc' = "raised"
                /\ UNCHANGED <<images, saved_path>>
    /\ UNCHANGED <<world, files, script, run, jsonl, tail, tmpTar, nxmlTmp, existing_pairs, entries, idx,
                   n_written, n_skipped, parsed_figs, img_tar_members, pmid, pmc,
                   wrote_any, figi, member, snap, hRun, hRaised, prevDone,
                   hKilled, hCuts, hReq, jfPending>>

NormSpec == NormInit /\ [][Normalize]_vars

ExtensionStep ==
    [][(pc = "extract" /\ pc' = "saved") =>
          /\ saved_path'.dir = saved_path.dir /\ saved_path'.stem = saved_path.stem
          /\ saved_path'.suffix = IF saved_path.suffix \in {".JPG", ".Jpg"}
                                  THEN saved_path.suffix ELSE ".jpg"]_vars

GetPrimary(e)  == [e |-> e, to |-> "primary", method |-> "GET"]
GetFallback(e) == [e |-> e, to |-> "fallback", method |-> "GET"]

\* C18: the fallback endpoint is asked only after the primary download of the
\* entry failed, each endpoint is asked for the archive at most once per
\* entry, and an entry both endpoints fail is skipped with no other download.
C18_RetrievalOrder ==
    /\ \A e \in 1..Len(entries) :
          /\ Downloads(e) \in {<<>>, <<GetPrimary(e)>>, <<GetPrimary(e), GetFallback(e)>>}
          /\ Len(Downloads(e)) = 2 =>
                (cfg.use_dual_base /\ Pkg(entries[e].path).prim # "ok")
    /\ (/\ EntryEnded
        /\ ~AboveCeiling(LastPkg, cfg)
        /\ LastPkg.prim # "ok"
        /\ cfg.use_dual_base => LastPkg.fb # "ok")
       => /\ Downloads(idx - 1) = IF cfg.use_dual_base
                                  THEN <<GetPrimary(idx - 1), GetFallback(idx - 1)>>
                                  ELSE <<GetPrimary(idx - 1)>>
          /\ NowState = Skipped(SnapState)

\* both endpoints failed for the first entry and the second is being downloaded
C18_Witness ==
    /\ pc = "open" /\ idx = 2
    /\ entries[1].path = "down"
    /\ Downloads(1) = <<GetPrimary(1), GetFallback(1)>>
    /\ Downloads(2) = <<GetPrimary(2)>>
    /\ n_skipped = 1

\* ------------------------------------------------ completion of a run
\* One step of a call that nothing terminates from outside (lines 362-475)
RunStep ==
    \/ Finish
    \/ SizeSkip
    \/ BeginEntry
    \/ DownloadPrimary
    \/ DownloadFallback
    \/ OpenTar
    \/ WriteTmpNxml
    \/ ParseNxml
    \/ FigHead
    \/ EndEntry
    \/ ExtractSave
    \/ AppendRecord

NextRun == StartRun \/ RunStep

\* A call that was started keeps executing: the loop is sequential code with
\* bounded requests (timeouts of lines 26 and 36), so a step that can be taken
\* is taken.
LiveSpec == Init /\ [][NextRun]_vars /\ WF_vars(RunStep)

\* C19: a run that is under way, whatever stage fails in its entries (a
\* refused write of a record included), eventually reaches its summary.
C19_RunCompletes == (pc \in Running) ~> (pc = "done")

\* Lemma: the runs whose device refuses no write reach the summary.
CompletesWhenWritesSucceed ==
    (pc \in Running /\ world.file0.room = None) ~> (pc = "done")

\* Lemma: a run ends without its summary only after a refused write.
CrashOnlyAfterRefusedWrite == pc = "crashed" => world.file0.room # None

\* ------------------------------------------------------- the dedup index
\* the non-empty pair_ids of the lines that parse, the last line included
PairIdsOfLines(lines, tl) ==
    LET L == AllLines(lines, tl)
    IN  {LinePairId(L[i]) : i \in 1..Len(L)} \ {""}

\* C20: with resume enabled, when a run has started and between any two
\* caption steps of it, the in-memory set is the set of the non-empty
\* pair_ids of the lines of the output file that parse.
C20_DedupIndex ==
    (cfg.resume /\ pc \in {"loop", "fig"}) =>
        existing_pairs = PairIdsOfLines(jsonl, tail)

\* Lemma: the set is the index of the file as long as no write was cut.
DedupIndexWithoutCutWrite ==
    (cfg.resume /\ pc \in {"loop", "fig"} /\ hCuts = 0) =>
        existing_pairs = PairIdsOfLines(jsonl, tail)

\* Lemma: the set is the index of the file when the run starts, cut or not.
DedupIndexAtStart ==
    (cfg.resume /\ pc = "loop" /\ idx = 1) =>
        existing_pairs = PairIdsOfLines(jsonl, tail)

\* ------------------------------------------------------------ subset cap
\* the first n elements of a sequence (all of them when it is shorter)
FirstN(s, n) == SubSeq(s, 1, IF n < Len(s) THEN n ELSE Len(s))
AsEntries(rows) == [i \in 1..Len(rows) |-> Entry(rows[i])]
Capped == cfg.subset_size # None /\ cfg.subset_size > 0

\* C21: with a cap of N > 0 the entries of a run are the first N well-formed
\* rows of the manifest, in file order.
C21_SubsetCap ==
    (pc \in Running \cup {"done"} /\ Capped) =>
        entries = AsEntries(FirstN(WellFormedRows(world.manifest), cfg.subset_size))

\* Lemma: the entries are the well-formed rows among the first N lines that
\* follow the header.
SubsetCapOverLines ==
    (pc \in Running \cup {"done"} /\ Capped) =>
        entries = AsEntries(SelectSeq(FirstN(Tail(world.manifest), cfg.subset_size),
                                      LAMBDA f : Len(f) = 5))

\* Lemma: the claim holds for the manifests whose first N lines after the
\* header are all well formed.
SubsetCapWellFormedHead ==
    (/\ pc \in Running \cup {"done"} /\ Capped
     /\ \A i \in 1..Len(FirstN(Tail(world.manifest), cfg.subset_size)) :
            Len(Tail(world.manifest)[i]) = 5) =>
        entries = AsEntries(FirstN(WellFormedRows(world.manifest), cfg.subset_size))

\* --------------------------------------------- the manifest scripts
\* The pipeline is at rest while a manifest script runs
Quiet ==
    /\ run = 0
    /\ pc = "idle"
    /\ jsonl = <<>>
    /\ tail = <<>>
    /\ images = <<>>
    /\ tmpTar = "nodir"
    /\ nxmlTmp = 0
    /\ existing_pairs = {}
    /\ entries = <<>>
    /\ idx = 0
    /\ n_written = 0
    /\ n_skipped = 0
    /\ parsed_figs = <<>>
    /\ img_tar_members = <<>>
    /\ pmid = ""
    /\ pmc = ""
    /\ wrote_any = FALSE
    /\ figi = 0
    /\ member = NoMember
    /\ saved_path = NoPath
    /\ snap = NoSnap
    /\ hRun = <<>>
    /\ hRaised = {}
    /\ prevDone = NoFile
    /\ hKilled = FALSE
    /\ hCuts = 0
    /\ hReq = <<>>
    /\ jfPending = FALSE

StaysQuiet ==
    UNCHANGED <<world, run, pc, durable, tmpTar, nxmlTmp, existing_pairs, entries, idx,
                n_written, n_skipped, locals, snap, hRun, hRaised, prevDone, hKilled,
                hCuts, hReq, jfPending>>

\* ------------------------------------------------------------- split.py
MaxSplitLines == 2

\* For each bucket h of 0..99, at place h + 1, the PMCID "PMC<k>" of least k
\* with int(md5(pmcid).hexdigest()[:8], 16) % 100 = h
BucketIds ==
    <<
      "PMC123", "PMC102", "PMC13", "PMC8", "PMC3", "PMC37", "PMC28", "PMC52",
      "PMC93", "PMC302", "PMC83", "PMC19", "PMC34", "PMC368", "PMC22", "PMC540",
      "PMC67", "PMC61", "PMC106", "PMC693", "PMC183", "PMC50", "PMC161", "PMC76",
      "PMC94", "PMC96", "PMC20", "PMC324", "PMC24", "PMC65", "PMC80", "PMC33",
      "PMC32", "PMC40", "PMC124", "PMC138", "PMC26", "PMC181", "PMC203", "PMC625",
      "PMC199", "PMC85", "PMC336", "PMC5", "PMC88", "PMC15", "PMC27", "PMC43",
      "PMC1", "PMC127", "PMC224", "PMC99", "PMC409", "PMC4", "PMC17", "PMC18",
      "PMC9", "PMC483", "PMC222", "PMC153", "PMC42", "PMC208", "PMC259", "PMC206",
      "PMC162", "PMC78", "PMC70", "PMC103", "PMC11", "PMC46", "PMC10", "PMC48",
      "PMC135", "PMC110", "PMC2", "PMC220", "PMC44", "PMC588", "PMC38", "PMC68",
      "PMC30", "PMC294", "PMC154", "PMC7", "PMC180", "PMC12", "PMC147", "PMC29",
      "PMC23", "PMC47", "PMC69", "PMC350", "PMC62", "PMC98", "PMC39", "PMC60",
      "PMC6", "PMC35", "PMC14", "PMC74"
    >>

\* int(hashlib.md5(pmcid.encode("utf-8")).hexdigest()[:8], 16) % 100
Md5Bucket(pmcid) == (CHOOSE i \in 1..100 : BucketIds[i] = pmcid) - 1

SplitRow(h) == <<"path", "title", BucketIds[h + 1], "pmid", "CC0">>
\* one row of every bucket
AllBuckets == [i \in 1..100 |-> SplitRow(i - 1)]

\* `if h < 97: ftr ... elif h < 98: fdv ... else: fte`
SplitOf(h) == IF h < 97 THEN "train" ELSE IF h < 98 THEN "dev" ELSE "test"

\* the lines after the header: any line at one place, plain ones elsewhere
SplitLines ==
    {<<>>} \cup
    UNION {{[i \in 1..n |-> IF i = k THEN q ELSE f[i]] :
               k \in 1..n,
               q \in {SplitRow(h) : h \in 0..99} \cup {ShortLine, LongLine},
               f \in [1..n -> {SplitRow(0), ShortLine}]} : n \in 1..MaxSplitLines}

SplitInit ==
    /\ world \in {World(<<Header>> \o ls, DefaultCfg, EmptyFile) :
                     ls \in SplitLines \cup {AllBuckets}}
    /\ script = [name |-> "split", pos |-> 0]
    /\ files = [train |-> <<>>, dev |-> <<>>, test |-> <<>>]
    /\ Quiet

\* `header = next(fin)` and the header written to the three files
SplitHeader ==
    /\ script.name = "split"
    /\ script.pos = 0
    /\ files' = [f \in {"train", "dev", "test"} |-> <<world.manifest[1]>>]
    /\ script' = [script EXCEPT !.pos = 1]
    /\ StaysQuiet

\* one pass of `for line in fin`
SplitLine ==
    /\ script.name = "split"
    /\ script.pos \in 1..(Len(world.manifest) - 1)
    /\ LET parts == world.manifest[script.pos + 1]
       IN  IF Len(parts) < 5
           THEN files' = files
           ELSE files' = [files EXCEPT ![SplitOf(Md5Bucket(parts[3]))] = Append(@, parts)]
    /\ script' = [script EXCEPT !.pos = @ + 1]
    /\ StaysQuiet

SplitNext == SplitHeader \/ SplitLine
SplitSpec == SplitInit /\ [][SplitNext]_vars

\* the lines of the input that the loop has passed, and those with 5 fields
\* or more among them
SplitPassed == SubSeq(world.manifest, 2, script.pos)
SplitKept == SelectSeq(SplitPassed, LAMBDA l : Len(l) >= 5)
SplitDone == script.name = "split" /\ script.pos = Len(world.manifest)
Rows(f) == Tail(files[f])
Count(s, x) == Cardinality({i \in 1..Len(s) : s[i] = x})

\* every passed row with 5 fields or more is in exactly one split, the one of
\* its bucket, and the splits hold nothing else
OneSplitPerRow ==
    (script.name = "split" /\ script.pos >= 1) =>
        /\ \A f \in {"train", "dev", "test"} : files[f][1] = world.manifest[1]
        /\ \A i \in 1..Len(SplitKept) :
              LET l == SplitKept[i]
              IN  /\ Count(Rows("train"), l) + Count(Rows("dev"), l) + Count(Rows("test"), l)
                        = Count(SplitKept, l)
                  /\ \A j \in 1..Len(SplitKept) :
                        Md5Bucket(SplitKept[j][3]) = Md5Bucket(l[3]) =>
                            \A f \in {"train", "dev", "test"} :
                                Count(Rows(f), l) > 0 <=> Count(Rows(f), SplitKept[j]) > 0
        /\ Len(Rows("train")) + Len(Rows("dev")) + Len(Rows("test")) = Len(SplitKept)

\* C22: split.py puts each row with at least 5 fields in exactly one split by
\* its bucket, and of the 100 buckets 95 go to train, 2 to dev and 3 to test:
\* a list with one row of each bucket gives 95, 2 and 3 rows.
C22_SplitProportions ==
    /\ OneSplitPerRow
    /\ (SplitDone /\ Tail(world.manifest) = AllBuckets) =>
          /\ Len(Rows("train")) = 95
          /\ Len(Rows("dev")) = 2
          /\ Len(Rows("test")) = 3

\* Lemma: the thresholds of the code give 97, 1 and 2 buckets.
SplitProportionsAsCoded ==
    /\ OneSplitPerRow
    /\ (SplitDone /\ Tail(world.manifest) = AllBuckets) =>
          /\ Len(Rows("train")) = 97
          /\ Len(Rows("dev")) = 1
          /\ Len(Rows("test")) = 2

\* ------------------------------------------------- split_into_shards.py
MaxShardRows == 4
MaxShardSize == 3

Digits == <<"0", "1", "2", "3", "4", "5", "6", "7", "8", "9">>
\* f"{args.prefix}_shard-{shard_idx:05d}.txt" for the indices below 10
ShardPath(shard_idx) == "list_shard-0000" \o Digits[shard_idx + 1] \o ".txt"

ShardFullLate(rows_in_shard, shard_size) == rows_in_shard > shard_size

\* `if rows_in_shard >= args.shard_size`
ShardFull(rows_in_shard, shard_size) == rows_in_shard >= shard_size

\* the lines of an input: rows, one of them blank, that may repeat
ShardRows == {Row("good"), Row("one"), <<>>}
ShardInputs ==
    {<<>>} \cup
    {<<Header>> \o rows :
        rows \in UNION {[1..n -> ShardRows] : n \in 0..MaxShardRows}}

\* a shard that an earlier call left in out_dir
StaleShards == (ShardPath(MaxShardRows) :> <<Header, Row("twin")>>)

ShardInit ==
    /\ world \in {World(m, DefaultCfg, EmptyFile) : m \in ShardInputs}
    /\ \E n \in 1..MaxShardSize :
          script = [name |-> "shards", pos |-> 0, shard_size |-> n, header |-> <<>>,
                    shard_idx |-> 0, rows_in_shard |-> 0, fout |-> "", closed |-> FALSE]
    /\ files \in {<<>>, StaleShards}
    /\ Quiet

\* `header = fin.readline()`: the first line, or nothing at the end of file
ShardHeader ==
    /\ script.name = "shards"
    /\ script.pos = 0
    /\ script' = [script EXCEPT !.pos = 1,
                                !.header = IF world.manifest = <<>> THEN <<>>
                                           ELSE world.manifest[1]]
    /\ UNCHANGED files
    /\ StaysQuiet

\* one pass of `for line in fin` (lines 20-31)
ShardLine ==
    /\ script.name = "shards"
    /\ script.pos \in 1..(Len(world.manifest) - 1)
    /\ LET line   == world.manifest[script.pos + 1]
           opens  == script.rows_in_shard = 0
           path   == IF opens THEN ShardPath(script.shard_idx) ELSE script.fout
           before == IF opens THEN <<script.header>> ELSE files[path]
           rows   == script.rows_in_shard + 1
       IN  /\ files' = (path :> Append(before, line)) @@ files
           /\ script' = [script EXCEPT
                            !.pos = @ + 1,
                            !.fout = path,
                            !.shard_idx = IF opens THEN @ + 1 ELSE @,
                            !.rows_in_shard =
                                IF ShardFull(rows, script.shard_size) THEN 0 ELSE rows]
    /\ StaysQuiet

\* the input is exhausted: the last shard is closed (lines 32-33)
ShardClose ==
    /\ script.name = "shards"
    /\ script.pos >= 1
    /\ script.pos >= Len(world.manifest)
    /\ ~script.closed
    /\ script' = [script EXCEPT !.closed = TRUE]
    /\ UNCHANGED files
    /\ StaysQuiet

ShardNext == ShardHeader \/ ShardLine \/ ShardClose
ShardSpec == ShardInit /\ [][ShardNext]_vars

\* the data rows of the shards of indices i..n-1 of this call, one after
\* another
RECURSIVE ShardRowsFrom(_, _)
ShardRowsFrom(i, n) ==
    IF i >= n THEN <<>> ELSE Tail(files[ShardPath(i)]) \o ShardRowsFrom(i + 1, n)

\* C23: the shards written by a call hold the data rows of the input, in
\* order, each row once; every shard starts with the header line and holds
\* between 1 and shard_size rows, shard_size for every shard but the last.
C23_ShardingPreservesRows ==
    (script.name = "shards" /\ script.closed) =>
        LET n == script.shard_idx
        IN  /\ ShardRowsFrom(0, n) = (IF world.manifest = <<>> THEN <<>>
                                      ELSE Tail(world.manifest))
            /\ \A i \in 0..(n - 1) :
                  LET shard == files[ShardPath(i)]
                  IN  /\ shard[1] = world.manifest[1]
                      /\ Len(shard) - 1 \in 1..script.shard_size
                      /\ i < n - 1 => Len(shard) - 1 = script.shard_size

\* an input of four rows was written to two shards, the second one short
C23_Witness ==
    /\ script.name = "shards" /\ script.closed
    /\ script.shard_size = 3
    /\ Len(world.manifest) = 5
    /\ script.shard_idx = 2
    /\ Len(files[ShardPath(1)]) = 2

\* Lemma: while the call runs the shards hold the rows passed so far.
ShardsHoldPassedRows ==
    (script.name = "shards" /\ script.pos >= 1) =>
        ShardRowsFrom(0, script.shard_idx) = SubSeq(world.manifest, 2, script.pos)
====
